---- MODULE Spec2Model ----
(***************************************************************************)
(* Model of the search route of nexsearch (src/app/api/search/route.ts):   *)
(* the POST handler, its lexical list detection, the per-company fan-out   *)
(* over the four provider adapters, the merge of their partial records and *)
(* the response assembly.                                                  *)
(*                                                                         *)
(* JavaScript strings are TLA+ strings, read character by character with   *)
(* SubSeq.  A JavaScript object is a function from its keys to its values; *)
(* a key whose value is undefined is left out of the function's domain.    *)
(***************************************************************************)
EXTENDS Integers, Sequences, FiniteSets, TLC

(***************************************************************************)
(* Bounds of the model.                                                    *)
(***************************************************************************)
\* A query is the concatenation of at most MaxPieces pieces of QueryPieces.
MaxPieces == 3

\* A query given to extractCompanyNames is the concatenation of at most
\* MaxExtractPieces pieces of ExtractPieces.
MaxExtractPieces == 3

(***************************************************************************)
(* String helpers: String.prototype.{includes, toLowerCase, trim, split}.  *)
(***************************************************************************)
CharAt(s, i) == SubSeq(s, i, i)

UpperChars == "ABCDEFGHIJKLMNOPQRSTUVWXYZ"
LowerChars == "abcdefghijklmnopqrstuvwxyz"

LowerChar(c) ==
  IF \E i \in 1..26 : CharAt(UpperChars, i) = c
  THEN CharAt(LowerChars, CHOOSE i \in 1..26 : CharAt(UpperChars, i) = c)
  ELSE c

RECURSIVE toLowerCase(_)
toLowerCase(s) ==
  IF Len(s) = 0 THEN ""
  ELSE LowerChar(CharAt(s, 1)) \o toLowerCase(SubSeq(s, 2, Len(s)))

includes(s, t) ==
  \E i \in 1..(Len(s) - Len(t) + 1) : SubSeq(s, i, i + Len(t) - 1) = t

startsWith(s, t) == Len(s) >= Len(t) /\ SubSeq(s, 1, Len(t)) = t

IsSpace(c) == c \in {" ", "\t", "\n", "\r"}

RECURSIVE trimStart(_)
trimStart(s) ==
  IF Len(s) > 0 /\ IsSpace(CharAt(s, 1)) THEN trimStart(SubSeq(s, 2, Len(s))) ELSE s

RECURSIVE trimEnd(_)
trimEnd(s) ==
  IF Len(s) > 0 /\ IsSpace(CharAt(s, Len(s)))
  THEN trimEnd(SubSeq(s, 1, Len(s) - 1)) ELSE s

trim(s) == trimEnd(trimStart(s))

\* s.split(d) for a one-character separator d: always at least one element.
RECURSIVE split(_, _)
split(s, d) ==
  IF \E i \in 1..Len(s) : CharAt(s, i) = d
  THEN LET i == CHOOSE k \in 1..Len(s) :
                  CharAt(s, k) = d /\ \A j \in 1..(k - 1) : CharAt(s, j) # d
       IN <<SubSeq(s, 1, i - 1)>> \o split(SubSeq(s, i + 1, Len(s)), d)
  ELSE <<s>>

\* array.map(f) over strings, for f = trim
mapTrim(xs) == [i \in 1..Len(xs) |-> trim(xs[i])]

\* array.filter(line => line.length > 0)
RECURSIVE filterNonEmpty(_)
filterNonEmpty(xs) ==
  IF Len(xs) = 0 THEN <<>>
  ELSE IF Len(Head(xs)) > 0 THEN <<Head(xs)>> \o filterNonEmpty(Tail(xs))
       ELSE filterNonEmpty(Tail(xs))

RECURSIVE join(_, _)
join(xs, sep) ==
  IF Len(xs) = 0 THEN ""
  ELSE IF Len(xs) = 1 THEN xs[1]
       ELSE xs[1] \o sep \o join(Tail(xs), sep)

(***************************************************************************)
(* Lexical list detection of POST.                                         *)
(***************************************************************************)
\* the lines of the query, kept as typed
queryLinesUntrimmed(query) == filterNonEmpty(split(query, "\n"))

\* const lines = query.split('\n').map(trim).filter(line => line.length > 0)
queryLines(query) == filterNonEmpty(mapTrim(split(query, "\n")))

\* the five interrogative markers the handler looks for
Markers == {"?", "what", "how", "find", "search"}

\* list detection that compares the markers with the query as typed
isCompanyListCaseSensitive(query) ==
  /\ Len(queryLines(query)) > 0
  /\ \A m \in Markers : ~includes(query, m)

isCompanyList(query) ==
  /\ Len(queryLines(query)) > 0
  /\ \A m \in Markers : ~includes(toLowerCase(query), m)

(***************************************************************************)
(* JavaScript objects.                                                     *)
(***************************************************************************)
EmptyObject == [k \in {} |-> ""]          \* {}
Null == [null |-> TRUE]                   \* null
Pending == [pending |-> TRUE]             \* a promise that has not settled

\* { ...a, ...b }
Spread(a, b) ==
  [k \in (DOMAIN a) \cup (DOMAIN b) |-> IF k \in DOMAIN b THEN b[k] ELSE a[k]]

\* obj[k] || '' for a string-valued key: undefined and '' are both falsy
OrEmpty(obj, k) == IF k \in DOMAIN obj THEN obj[k] ELSE ""

\* Object.keys(obj).length
keysLength(obj) == Cardinality(DOMAIN obj)

(***************************************************************************)
(* Number formatting: Number.prototype.toString and toFixed(1).            *)
(***************************************************************************)
Digits == "0123456789"
IsDigit(c) == \E i \in 1..10 : CharAt(Digits, i) = c

RECURSIVE numToString(_)
numToString(n) ==
  IF n < 10 THEN CharAt(Digits, n + 1)
  ELSE numToString(n \div 10) \o CharAt(Digits, (n % 10) + 1)

\* (n / unit).toFixed(1) for a unit that is a multiple of 20
toFixed1(n, unit) ==
  LET tenths == (n + (unit \div 20)) \div (unit \div 10)
  IN numToString(tenths \div 10) \o "." \o numToString(tenths % 10)

(***************************************************************************)
(* formatRevenue, formatEmployees, formatLinkedInUrl.                      *)
(***************************************************************************)
\* end of the longest run of characters satisfying a class, from position i
RECURSIVE digitsEnd(_, _)
digitsEnd(s, i) ==
  IF i <= Len(s) /\ IsDigit(CharAt(s, i)) THEN digitsEnd(s, i + 1) ELSE i

RECURSIVE spacesEnd(_, _)
spacesEnd(s, i) ==
  IF i <= Len(s) /\ IsSpace(CharAt(s, i)) THEN spacesEnd(s, i + 1) ELSE i

IsUnit(c) == c \in {"B", "M", "K", "T", "b", "m", "k", "t"}

\* whether s from position i reads "(dddd)"
IsYearAt(s, i) ==
  /\ i + 5 <= Len(s)
  /\ CharAt(s, i) = "(" /\ CharAt(s, i + 5) = ")"
  /\ \A j \in (i + 1)..(i + 4) : IsDigit(CharAt(s, j))

\* /\$?(\d+\.?\d*)\s*(B|M|K|T).*?(\(\d{4}\))?/i tried at position i.
\* match[0] is s[i..last], match[1] is s[g1..g1end-1], match[2] is s[u].
revenueMatchAt(s, i) ==
  LET g1    == IF i <= Len(s) /\ CharAt(s, i) = "$" THEN i + 1 ELSE i
      d1    == digitsEnd(s, g1)
      dot   == IF d1 <= Len(s) /\ CharAt(s, d1) = "." THEN d1 + 1 ELSE d1
      g1end == digitsEnd(s, dot)
      u     == spacesEnd(s, g1end)
      ok    == d1 > g1 /\ u <= Len(s) /\ IsUnit(CharAt(s, u))
      last  == IF ok /\ IsYearAt(s, u + 1) THEN u + 6 ELSE u
  IN [ok |-> ok, from |-> i, g1 |-> g1, g1end |-> g1end, u |-> u, last |-> last]

revenueMatches(s) == \E i \in 1..Len(s) : revenueMatchAt(s, i).ok

revenueMatch(s) ==
  revenueMatchAt(s, CHOOSE i \in 1..Len(s) :
                      /\ revenueMatchAt(s, i).ok
                      /\ \A j \in 1..(i - 1) : ~revenueMatchAt(s, j).ok)

toUpperChar(c) ==
  IF \E i \in 1..26 : CharAt(LowerChars, i) = c
  THEN CharAt(UpperChars, CHOOSE i \in 1..26 : CharAt(LowerChars, i) = c)
  ELSE c

RECURSIVE toUpperCase(_)
toUpperCase(s) ==
  IF Len(s) = 0 THEN ""
  ELSE toUpperChar(CharAt(s, 1)) \o toUpperCase(SubSeq(s, 2, Len(s)))

\* formatRevenue on a non-empty string.  The destructuring
\*   const [ amount, unit, year] = match
\* binds amount to match[0], unit to match[1] and year to match[2].
formatRevenueString(revenue) ==
  IF revenueMatches(revenue)
  THEN LET m      == revenueMatch(revenue)
           amount == SubSeq(revenue, m.from, m.last)
           unit   == SubSeq(revenue, m.g1, m.g1end - 1)
           year   == CharAt(revenue, m.u)
       IN "$" \o amount \o toUpperCase(unit) \o year
  ELSE revenue

\* formatRevenue on a non-zero number
formatRevenueNumber(revenue) ==
  IF revenue >= 1000000000 THEN "$" \o toFixed1(revenue, 1000000000) \o "B"
  ELSE IF revenue >= 1000000 THEN "$" \o toFixed1(revenue, 1000000) \o "M"
  ELSE IF revenue >= 1000 THEN "$" \o toFixed1(revenue, 1000) \o "K"
  ELSE "$" \o numToString(revenue)

RECURSIVE removeSpaces(_)
removeSpaces(s) ==
  IF Len(s) = 0 THEN ""
  ELSE IF IsSpace(CharAt(s, 1)) THEN removeSpaces(SubSeq(s, 2, Len(s)))
       ELSE CharAt(s, 1) \o removeSpaces(SubSeq(s, 2, Len(s)))

\* employees.replace(/\s+/g, '').replace(/(\d+)-(\d+)/, '$1 - $2')
formatEmployees(employees) ==
  LET t == removeSpaces(employees)
      IsRange(k) == /\ 1 < k /\ k < Len(t) /\ CharAt(t, k) = "-"
                    /\ IsDigit(CharAt(t, k - 1)) /\ IsDigit(CharAt(t, k + 1))
  IN IF \E k \in 1..Len(t) : IsRange(k)
     THEN LET k == CHOOSE k \in 1..Len(t) :
                     IsRange(k) /\ \A j \in 1..(k - 1) : ~IsRange(j)
          IN SubSeq(t, 1, k - 1) \o " - " \o SubSeq(t, k + 1, Len(t))
     ELSE t

\* formatLinkedInUrl on a non-empty string: the set holding the returned
\* string, or the empty set when it returns undefined.
formatLinkedInUrl(url) ==
  LET u == IF startsWith(url, "http") THEN url ELSE "https://" \o url
  IN IF includes(u, "/company/") THEN {u} ELSE {}

(***************************************************************************)
(* findMostReliableValue, the helper of combineData.  An array element is  *)
(* the set holding the string, or the empty set when it is undefined; so   *)
(* is the value returned.                                                  *)
(***************************************************************************)
RECURSIVE validValues(_)
validValues(values) ==
  IF Len(values) = 0 THEN <<>>
  ELSE LET keep == \E v \in Head(values) :
                     Len(v) > 0 /\ v # "Not available" /\ v # "undefined"
       IN IF keep THEN <<CHOOSE v \in Head(values) : TRUE>> \o validValues(Tail(values))
          ELSE validValues(Tail(values))

\* validValues.reduce((prev, current) =>
\*   (current.length > prev.length) ? current : prev)
RECURSIVE reduceLongest(_, _)
reduceLongest(prev, rest) ==
  IF Len(rest) = 0 THEN prev
  ELSE reduceLongest(IF Len(Head(rest)) > Len(prev) THEN Head(rest) ELSE prev,
                     Tail(rest))

findMostReliableValue(values) ==
  LET valid == validValues(values)
  IN IF Len(valid) = 0 THEN {} ELSE {reduceLongest(Head(valid), Tail(valid))}

(***************************************************************************)
(* Credentials (process.env) and the providers' behaviours.  A behaviour   *)
(* is what one outbound call does: it throws (network error), answers with *)
(* a non-2xx status, or answers with a payload.                            *)
(***************************************************************************)
AllKeys == {"EXA", "OPENAI", "APOLLO", "DEEPSEEK", "PERPLEXITY"}

\* The credential configurations a request is run under.
KeyConfigs ==
  {AllKeys, {"OPENAI", "APOLLO", "DEEPSEEK"}, {"OPENAI"}, {"APOLLO"}, {}}

\* POST https://api.exa.ai/search
ExaSearchBehaviours ==
  { [kind |-> "ok", results |-> <<[url |-> "https://acme.com/about"]>>] }

\* the chat completion that extracts details from the EXA hits
ExaDetailBehaviours ==
  { [kind |-> "json",
     value |-> [geography |-> "US", revenue |-> "$1B",
                employees |-> "n/a", linkedinUrl |-> "linkedin.com/in/acme"]] }

\* openai.chat.completions.create in getCompanyDetails
OpenAIBehaviours ==
  { [kind |-> "throw"],
    [kind |-> "json",
     value |-> [domain |-> "", geography |-> "", revenue |-> "",
                employees |-> "", linkedinUrl |-> ""]],
    [kind |-> "json",
     value |-> [domain |-> "acme.co", geography |-> "Not available",
                revenue |-> "$1.2B", employees |-> "50-100",
                linkedinUrl |-> "linkedin.com/in/acme"]] }

\* POST https://api.apollo.io/v1/organizations/search
ApolloBehaviours ==
  { [kind |-> "ok",
     organizations |-> <<[domain |-> "acme.io", location |-> "Austin, TX",
                          annual_revenue |-> 1200000000,
                          employee_count |-> 250]>>] }

\* POST https://api.deepseek.com/v1/companies/enrich
DeepseekBehaviours ==
  { [kind |-> "ok", company |-> [headquarters_location |-> "Not available"]] }

(***************************************************************************)
(* Provider adapters.                                                      *)
(***************************************************************************)
\* new URL(url).hostname for "http(s)://host/path": the set holding the
\* hostname, or the empty set when the constructor throws.
urlHostname(url) ==
  LET rest == IF startsWith(url, "https://") THEN SubSeq(url, 9, Len(url))
              ELSE IF startsWith(url, "http://") THEN SubSeq(url, 8, Len(url))
              ELSE ""
  IN IF rest = "" THEN {} ELSE {split(rest, "/")[1]}

\* searchExaAPI: null, or {results, domain}
searchExaAPI(keys, b) ==
  IF "EXA" \notin keys THEN Null
  ELSE IF b.kind # "ok" THEN Null
  ELSE IF Len(b.results) = 0 THEN Null
  ELSE IF urlHostname(b.results[1].url) = {} THEN Null
  ELSE [results |-> b.results,
        domain |-> CHOOSE h \in urlHostname(b.results[1].url) : TRUE]

\* getCompanyDetailsFromExa
getCompanyDetailsFromExa(keys, companyName, b) ==
  LET details == [companyName |-> companyName, domain |-> "", geography |-> "",
                  revenue |-> "", employees |-> "", linkedinUrl |-> "",
                  source |-> "EXA"]
      Has(k) == k \in DOMAIN b.value
  IN IF "DEEPSEEK" \notin keys THEN details
     ELSE IF b.kind = "throw"
       THEN [details EXCEPT !.domain = "Error", !.source = "EXA Error"]
     ELSE IF b.kind # "json" THEN details
     ELSE [details EXCEPT
             !.geography = IF Has("geography") /\ b.value.geography # ""
                           THEN b.value.geography ELSE @,
             !.revenue = IF Has("revenue") /\ includes(b.value.revenue, "$")
                         THEN b.value.revenue ELSE @,
             !.employees =
                IF Has("employees")
                   /\ \E i \in 1..Len(b.value.employees) :
                         IsDigit(CharAt(b.value.employees, i))
                THEN b.value.employees ELSE @,
             !.linkedinUrl =
                IF Has("linkedinUrl")
                   /\ includes(b.value.linkedinUrl, "linkedin.com/company/")
                THEN b.value.linkedinUrl ELSE @]

\* the placeholder records of getCompanyDetails
placeholder(company, domain, source) ==
  [companyName |-> company, domain |-> domain, geography |-> "",
   revenue |-> "", employees |-> "", linkedinUrl |-> "", source |-> source]

\* getCompanyDetails
getCompanyDetails(keys, company, b) ==
  IF "OPENAI" \notin keys THEN placeholder(company, "No API Key", "Error")
  ELSE IF b.kind = "throw" THEN placeholder(company, "API Error", "OpenAI Error")
  ELSE IF b.kind = "empty" THEN placeholder(company, "No Response", "OpenAI Error")
  ELSE IF b.kind # "json" THEN placeholder(company, "Parse Error", "OpenAI Error")
  ELSE LET p == b.value
           url == IF OrEmpty(p, "linkedinUrl") = "" THEN {""}
                  ELSE formatLinkedInUrl(p.linkedinUrl)
           rec == [companyName |-> company,
                   domain |-> OrEmpty(p, "domain"),
                   geography |-> OrEmpty(p, "geography"),
                   revenue |-> IF OrEmpty(p, "revenue") = "" THEN ""
                               ELSE formatRevenueString(p.revenue),
                   employees |-> IF OrEmpty(p, "employees") = "" THEN ""
                                 ELSE formatEmployees(p.employees),
                   source |-> "OpenAI"]
       IN IF url = {} THEN rec
          ELSE Spread(rec, [linkedinUrl |-> CHOOSE u \in url : TRUE])

\* Object.fromEntries(Object.entries(result).filter(([ value]) =>
\*   value && value !== '' && value !== 'Not available'))
\* The parameter pattern [ value] binds value to the entry's key.
filterEntries(result) ==
  [k \in {value \in DOMAIN result : value # "" /\ value # "Not available"}
     |-> result[k]]

\* the record built from an organization by getApolloData and getDeepseekData
enrichedResult(domain, geography, org) ==
  filterEntries(
    [domain |-> IF OrEmpty(org, "domain") # "" THEN org.domain ELSE domain,
     geography |-> geography,
     revenue |-> IF "annual_revenue" \in DOMAIN org /\ org.annual_revenue # 0
                 THEN formatRevenueNumber(org.annual_revenue) ELSE "",
     employees |-> IF "employee_count" \in DOMAIN org
                   THEN numToString(org.employee_count) ELSE "",
     linkedinUrl |-> OrEmpty(org, "linkedin_url")])

\* getApolloData(company) with no known domain: the enrich call is skipped
getApolloData(keys, b) ==
  IF "APOLLO" \notin keys THEN EmptyObject
  ELSE IF b.kind # "ok" THEN EmptyObject
  ELSE IF Len(b.organizations) = 0 THEN EmptyObject
  ELSE LET org == b.organizations[1]
       IN enrichedResult("", OrEmpty(org, "location"), org)

\* getDeepseekData(company) with no known domain
getDeepseekData(keys, b) ==
  IF "DEEPSEEK" \notin keys THEN EmptyObject
  ELSE IF b.kind # "ok" THEN EmptyObject
  ELSE IF "company" \notin DOMAIN b THEN EmptyObject
  ELSE enrichedResult("", OrEmpty(b.company, "headquarters_location"), b.company)

(***************************************************************************)
(* Query classification and name extraction (the path taken when lexical   *)
(* list detection does not fire).                                          *)
(***************************************************************************)
\* chain.invoke(...) followed by JSON.parse in processQueryWithLangChain
ClassifierBehaviours ==
  { [kind |-> "throw"],
    [kind |-> "json", value |-> Null],
    [kind |-> "json",
     value |-> [enhancedQuery |-> "companies", searchIntent |-> "company",
                confidenceScore |-> "0.95"]],
    [kind |-> "json",
     value |-> [enhancedQuery |-> "trends", searchIntent |-> "general",
                confidenceScore |-> "0.95"]],
    [kind |-> "json",
     value |-> [enhancedQuery |-> "trends", searchIntent |-> "question",
                confidenceScore |-> "95"]] }

\* the two chat completions of extractCompanyNamesFromPerplexity
PerplexityBehaviours ==
  { [kind |-> "notok"],
    [kind |-> "ok", content |-> "1.\nNote: none"],
    [kind |-> "ok", content |-> "Acme\n\nGlobex"] }

\* openai.chat.completions.create in getNaturalResponse
NaturalBehaviours ==
  { [kind |-> "throw"], [kind |-> "ok", content |-> ""],
    [kind |-> "ok", content |-> "Section: Overview"] }

\* What the classifier can do under the credentials configured.  Without
\* the credential no completion can be had: either new ChatOpenAI(...),
\* which is constructed outside the try block, throws, or chain.invoke does.
ClassifierBehavioursFor(keys) ==
  IF "OPENAI" \in keys THEN ClassifierBehaviours
  ELSE {[kind |-> "throw"], [kind |-> "noclient"]}

\* processQueryWithLangChain: what JSON.parse(result) returns, or the default
\* (whose confidenceScore, the number 0.5, is written as its decimal)
processQueryWithLangChain(query, b) ==
  IF b.kind = "json" THEN b.value
  ELSE [enhancedQuery |-> query, searchIntent |-> "general",
        confidenceScore |-> "0.5"]

IsLineBreak(c) == c \in {"\n", "\r"}

RECURSIVE lineBreaksEnd(_, _)
lineBreaksEnd(s, i) ==
  IF i <= Len(s) /\ IsLineBreak(CharAt(s, i)) THEN lineBreaksEnd(s, i + 1) ELSE i

\* s.split(/[\n\r]+/)
RECURSIVE splitLines(_)
splitLines(s) ==
  IF \E i \in 1..Len(s) : IsLineBreak(CharAt(s, i))
  THEN LET i == CHOOSE k \in 1..Len(s) :
                  /\ IsLineBreak(CharAt(s, k))
                  /\ \A j \in 1..(k - 1) : ~IsLineBreak(CharAt(s, j))
       IN <<SubSeq(s, 1, i - 1)>>
            \o splitLines(SubSeq(s, lineBreaksEnd(s, i), Len(s)))
  ELSE <<s>>

\* name.match(/^[\d\s.)-]+$/)
isBulletOnly(name) ==
  /\ Len(name) > 0
  /\ \A i \in 1..Len(name) :
       LET c == CharAt(name, i) IN IsDigit(c) \/ IsSpace(c) \/ c \in {".", ")", "-"}

\* the filter of extractCompanyNamesFromPerplexity
RECURSIVE filterNames(_)
filterNames(xs) ==
  IF Len(xs) = 0 THEN <<>>
  ELSE LET name == Head(xs)
           keep == /\ Len(name) > 0
                   /\ ~isBulletOnly(name)
                   /\ ~startsWith(toLowerCase(name), "note:")
       IN IF keep THEN <<name>> \o filterNames(Tail(xs)) ELSE filterNames(Tail(xs))

\* extractCompanyNamesFromPerplexity: bIntent and bExtract are the behaviours
\* of its first and second call
extractCompanyNamesFromPerplexity(keys, bIntent, bExtract) ==
  IF "PERPLEXITY" \notin keys THEN <<>>
  ELSE IF bIntent.kind # "ok" THEN <<>>
  ELSE IF bExtract.kind # "ok" THEN <<>>
  ELSE IF trim(bExtract.content) = "" THEN <<>>
  ELSE LET byLine == mapTrim(splitLines(trim(bExtract.content)))
           companies == IF Len(byLine) = 1 /\ includes(byLine[1], ",")
                        THEN mapTrim(split(byLine[1], ","))
                        ELSE byLine
       IN filterNames(companies)

\* getNaturalResponse without its fallback texts
getNaturalResponseNoFallback(keys, b) ==
  IF "OPENAI" \notin keys \/ b.kind # "ok" THEN "" ELSE trim(b.content)

\* getNaturalResponse
getNaturalResponse(keys, b) ==
  IF "OPENAI" \notin keys
  THEN "Unable to process natural language queries at this time."
  ELSE IF b.kind # "ok" THEN "An error occurred while processing your query."
  ELSE IF trim(b.content) = "" THEN "Unable to generate a response."
  ELSE trim(b.content)

(***************************************************************************)
(* extractCompanyNames: the primary extraction, then the heuristics on the *)
(* query text, then a second provider, then the query itself.              *)
(***************************************************************************)
\* the chat completion of the second provider
SecondBehaviours ==
  { [kind |-> "throw"], [kind |-> "notok"], [kind |-> "ok", content |-> " "],
    [kind |-> "ok", content |-> "2)\nGlobex"] }

\* end of the longest run of characters other than "}", from position i
RECURSIVE braceEnd(_, _)
braceEnd(s, i) ==
  IF i <= Len(s) /\ CharAt(s, i) # "}" THEN braceEnd(s, i + 1) ELSE i

\* query.match(/\{([^}]+)\}/)?.[1]: the set holding the first group, or the
\* empty set when there is no match
bracketContent(query) ==
  LET Matches(i) == /\ CharAt(query, i) = "{"
                    /\ braceEnd(query, i + 1) > i + 1
                    /\ braceEnd(query, i + 1) <= Len(query)
  IN IF \E i \in 1..Len(query) : Matches(i)
     THEN LET i == CHOOSE k \in 1..Len(query) :
                     Matches(k) /\ \A j \in 1..(k - 1) : ~Matches(j)
          IN {SubSeq(query, i + 1, braceEnd(query, i + 1) - 1)}
     ELSE {}

\* the explicit list in curly braces
braceStage(query) ==
  IF includes(query, "{") /\ includes(query, "}") /\ bracketContent(query) # {}
  THEN filterNonEmpty(mapTrim(splitLines(CHOOSE c \in bracketContent(query) : TRUE)))
  ELSE <<>>

\* the multi-line input
newlineStage(query) ==
  IF includes(query, "\n") THEN filterNames(mapTrim(splitLines(query))) ELSE <<>>

\* the comma-separated list
commaStage(query) ==
  IF includes(query, ",") THEN filterNonEmpty(mapTrim(split(query, ","))) ELSE <<>>

\* the second provider, and the query as a single company when it fails
secondStage(keys, query, b) ==
  IF "DEEPSEEK" \notin keys THEN <<query>>
  ELSE IF b.kind # "ok" THEN <<query>>
  ELSE IF trim(b.content) = "" THEN <<query>>
  ELSE filterNonEmpty(mapTrim(splitLines(trim(b.content))))

\* extractCompanyNames with the heuristics tried in another order
extractCompanyNamesCommaFirst(keys, query, bIntent, bExtract, bSecond) ==
  LET perplexityResults == extractCompanyNamesFromPerplexity(keys, bIntent, bExtract)
  IN IF Len(perplexityResults) > 0 THEN perplexityResults
     ELSE IF Len(commaStage(query)) > 0 THEN commaStage(query)
     ELSE IF Len(braceStage(query)) > 0 THEN braceStage(query)
     ELSE IF Len(newlineStage(query)) > 0 THEN newlineStage(query)
     ELSE secondStage(keys, query, bSecond)

extractCompanyNames(keys, query, bIntent, bExtract, bSecond) ==
  LET perplexityResults == extractCompanyNamesFromPerplexity(keys, bIntent, bExtract)
  IN IF Len(perplexityResults) > 0 THEN perplexityResults
     ELSE IF Len(braceStage(query)) > 0 THEN braceStage(query)
     ELSE IF Len(newlineStage(query)) > 0 THEN newlineStage(query)
     ELSE IF Len(commaStage(query)) > 0 THEN commaStage(query)
     ELSE secondStage(keys, query, bSecond)

(***************************************************************************)
(* The validators of the contact path: verifyLinkedInUrl and verifyEmail.  *)
(* The outcome of the HEAD request each of them sends is an input:         *)
(*   "ok"     the response has status 200                                  *)
(*   "notok"  the response has another status                              *)
(*   "throw"  fetch rejects (network error, or the 5 s abort)              *)
(***************************************************************************)
ProbeOutcomes == {"ok", "notok", "throw"}

IsLetter(c) ==
  \E i \in 1..26 : CharAt(UpperChars, i) = c \/ CharAt(LowerChars, i) = c

IsAlnum(c) == IsLetter(c) \/ IsDigit(c)

\* the character class [\w-]
IsWordOrDash(c) == IsAlnum(c) \/ c \in {"_", "-"}

endsWith(s, t) == Len(s) >= Len(t) /\ SubSeq(s, Len(s) - Len(t) + 1, Len(s)) = t

\* s starts with p in any letter case (p is lower case)
startsWithIgnoreCase(s, p) ==
  Len(s) >= Len(p) /\ toLowerCase(SubSeq(s, 1, Len(p))) = p

dropFirst(s, n) == SubSeq(s, n + 1, Len(s))

\* url.replace(/^(https?:\/\/)?(www\.)?/i, '')
stripSchemeAndWww(url) ==
  LET a == IF startsWithIgnoreCase(url, "https://") THEN dropFirst(url, 8)
           ELSE IF startsWithIgnoreCase(url, "http://") THEN dropFirst(url, 7)
           ELSE url
  IN IF startsWithIgnoreCase(a, "www.") THEN dropFirst(a, 4) ELSE a

\* s.replace(/\/$/, '')
stripTrailingSlash(s) ==
  IF endsWith(s, "/") THEN SubSeq(s, 1, Len(s) - 1) ELSE s

\* cleanUrl.match(/^linkedin\.com\/company\/[\w-]+\/?$/)
matchesCompanyPattern(cleanUrl) ==
  /\ startsWith(cleanUrl, "linkedin.com/company/")
  /\ LET rest == dropFirst(cleanUrl, 21)
         slug == stripTrailingSlash(rest)
     IN /\ Len(slug) >= 1
        /\ \A i \in 1..Len(slug) : IsWordOrDash(CharAt(slug, i))

\* const cleanUrl = url.replace(..).replace(..).toLowerCase().trim()
cleanLinkedInUrl(url) ==
  trim(toLowerCase(stripTrailingSlash(stripSchemeAndWww(url))))


\* verifyLinkedInUrl(url): {} is null, {u} is the string u
verifyLinkedInUrl(url, probe) ==
  IF url = "" \/ ~includes(url, "linkedin.com") THEN {}
  ELSE IF ~includes(url, "/company/") THEN {}
  ELSE LET cleanUrl == cleanLinkedInUrl(url)
           fullUrl == "https://www." \o cleanUrl
       IN IF ~matchesCompanyPattern(cleanUrl) THEN {}
          ELSE CASE probe = "ok" -> {fullUrl}
                 [] probe = "throw" -> {fullUrl}
                 [] OTHER -> {}

\* /^[a-zA-Z0-9](?:[a-zA-Z0-9._-]*[a-zA-Z0-9])?@[a-zA-Z0-9.-]+\.[a-zA-Z]{2,}$/
emailRegexTest(email) ==
  /\ Cardinality({i \in 1..Len(email) : CharAt(email, i) = "@"}) = 1
  /\ LET at == CHOOSE i \in 1..Len(email) : CharAt(email, i) = "@"
         local == SubSeq(email, 1, at - 1)
         host == SubSeq(email, at + 1, Len(email))
         dots == {i \in 1..Len(host) : CharAt(host, i) = "."}
     IN /\ Len(local) >= 1
        /\ IsAlnum(CharAt(local, 1))
        /\ IsAlnum(CharAt(local, Len(local)))
        /\ \A i \in 1..Len(local) :
             IsAlnum(CharAt(local, i)) \/ CharAt(local, i) \in {".", "_", "-"}
        /\ dots # {}
        /\ LET dot == CHOOSE i \in dots : \A j \in dots : j <= i
           IN /\ dot >= 2
              /\ \A i \in 1..(dot - 1) :
                   IsAlnum(CharAt(host, i)) \/ CharAt(host, i) \in {".", "-"}
              /\ Len(host) - dot >= 2
              /\ \A i \in (dot + 1)..Len(host) : IsLetter(CharAt(host, i))

invalidPatterns ==
  {"noreply", "no-reply", "donotreply", "test", "example", "temp", "fake",
   "spam", "admin@", "administrator@", "webmaster@", "info@", "contact@"}

\* email.split('@')[1].toLowerCase()
emailDomainOf(email) == toLowerCase(split(email, "@")[2])

\* verifyEmail without its HEAD request to https://<emailDomain>
verifyEmailNoProbe(email, domain, probe) ==
  /\ emailRegexTest(email)
  /\ emailDomainOf(email) = toLowerCase(domain)
  /\ ~\E p \in invalidPatterns : includes(toLowerCase(email), p)

\* verifyEmail(email, domain)
verifyEmail(email, domain, probe) ==
  IF ~emailRegexTest(email) THEN FALSE
  ELSE IF emailDomainOf(email) # toLowerCase(domain) THEN FALSE
  ELSE IF \E p \in invalidPatterns : includes(toLowerCase(email), p) THEN FALSE
  ELSE probe = "ok"

(***************************************************************************)
(* Contact resolution: findContactPersons, findApolloContacts and          *)
(* verifyContactWithDeepseek.  A person is a record of the provider's      *)
(* response; a confidence c is held as the integer 100 * c.                *)
(***************************************************************************)
\* the fetch of a people endpoint answers with at most this many people
MaxDeepseekPeople == 6
MaxApolloPeople == 4
\* an organization search answers with at most this many organizations
MaxOrganizations == 2

\* s.test(/^[...]+$/) for a character class given as a set of extra
\* characters next to the letters
lettersOr(s, extra) ==
  Len(s) >= 1 /\ \A i \in 1..Len(s) : IsLetter(CharAt(s, i)) \/ CharAt(s, i) \in extra

\* array.slice(0, n)
sliceTo(xs, n) == SubSeq(xs, 1, IF Len(xs) < n THEN Len(xs) ELSE n)

\* the order Array.prototype.sort gives xs under (a, b) => key(b) - key(a):
\* descending keys, elements of equal key in their input order
sortDescending(xs, key) ==
  LET rank(i) == 1 + Cardinality({j \in 1..Len(xs) :
                       key[j] > key[i] \/ (key[j] = key[i] /\ j < i)})
  IN [p \in 1..Len(xs) |-> xs[CHOOSE i \in 1..Len(xs) : rank(i) = p]]

\* titleScore of findApolloContacts
titleScore(title) ==
  LET t == toLowerCase(title)
  IN IF includes(t, "ceo") \/ includes(t, "chief executive") THEN 100
     ELSE IF includes(t, "cto") \/ includes(t, "cfo") \/ includes(t, "coo") THEN 90
     ELSE IF includes(t, "president") THEN 80
     ELSE IF includes(t, "vice president") \/ includes(t, "vp") THEN 70
     ELSE IF includes(t, "head") THEN 60
     ELSE IF includes(t, "director") THEN 50
     ELSE 0

\* findContactPersons(company, domain); b is what the people search answers
\* and the outcome of the HEAD request of verifyLinkedInUrl
findContactPersons(keys, domain, b) ==
  IF "DEEPSEEK" \notin keys THEN <<>>
  ELSE IF b.kind # "ok" THEN <<>>
  ELSE IF "people" \notin DOMAIN b THEN <<>>
  ELSE
    LET kept == SelectSeq(b.people, LAMBDA p :
                  p.email_status = "verified" /\ endsWith(p.email, domain))
        linkedinUrl(p) ==
          LET verifiedUrl == IF OrEmpty(p, "linkedin_url") # ""
                             THEN verifyLinkedInUrl(p.linkedin_url, b.probe)
                             ELSE {}
          IN IF verifiedUrl = {} THEN "Not available"
             ELSE CHOOSE u \in verifiedUrl : TRUE
        verifiedContacts ==
          [i \in 1..Len(kept) |->
             [name |-> kept[i].first_name \o " " \o kept[i].last_name,
              title |-> kept[i].title,
              email |-> kept[i].email,
              linkedinUrl |-> linkedinUrl(kept[i]),
              confidence |-> IF kept[i].email_confidence > 90 THEN "high"
                             ELSE "medium",
              verificationSource |-> "Verified through Deepseek"]]
    IN sliceTo(SelectSeq(verifiedContacts, LAMBDA c :
                 includes(c.name, " ") /\ Len(c.title) > 2), 5)

\* verifyContactWithDeepseek(person, company, domain): {} is null; v is what
\* the people/verify call answers
verifyContactWithDeepseek(keys, person, v) ==
  IF "DEEPSEEK" \notin keys THEN {}
  ELSE IF v.kind # "ok" THEN {}
  ELSE IF "verification" \notin DOMAIN v THEN {}
  ELSE IF v.verification.confidence < 70 THEN {}
  ELSE
    {[name |-> person.first_name \o " " \o person.last_name,
      title |-> person.title,
      email |-> IF OrEmpty(v.verification, "email") # ""
                THEN v.verification.email ELSE person.email,
      linkedinUrl |-> IF OrEmpty(v.verification, "linkedin_url") # ""
                      THEN v.verification.linkedin_url
                      ELSE IF OrEmpty(person, "linkedin_url") # ""
                      THEN person.linkedin_url ELSE "Not available",
      confidence |-> IF v.verification.confidence > 90 THEN "high" ELSE "medium",
      verificationSource |-> "Verified through Deepseek and Apollo.io"]}

\* the contacts findApolloContacts holds before it sorts them
apolloContacts(keys, domain, b) ==
  LET potentialContacts == SelectSeq(b.people, LAMBDA person :
        /\ Len(person.first_name) > 1 /\ Len(person.last_name) > 1
        /\ lettersOr(person.first_name, {" ", "-"})
        /\ lettersOr(person.last_name, {" ", "-"})
        /\ Len(person.title) > 2
        /\ lettersOr(person.title, {" ", ",", "&", "-"})
        /\ includes(person.email, domain)
        /\ person.email_status = "verified"
        /\ person.employment_current = TRUE)
      verified == SelectSeq(potentialContacts, LAMBDA person :
                    verifyContactWithDeepseek(keys, person, b.verify) # {})
      contact(person) ==
        CHOOSE c \in verifyContactWithDeepseek(keys, person, b.verify) : TRUE
  IN SelectSeq([i \in 1..Len(verified) |-> contact(verified[i])], LAMBDA c :
       Len(split(c.name, " ")) >= 2 /\ Len(c.title) >= 3)

\* findApolloContacts(company, domain); b is what the people search answers
\* and what the people/verify call answers for each person
findApolloContacts(keys, domain, b) ==
  IF "APOLLO" \notin keys \/ domain = "" THEN <<>>
  ELSE IF b.kind = "throw" THEN <<>>
  ELSE IF b.kind # "ok" THEN <<>>
  ELSE LET contacts == apolloContacts(keys, domain, b)
       IN sliceTo(sortDescending(contacts,
                    [i \in 1..Len(contacts) |-> titleScore(contacts[i].title)]), 3)

(***************************************************************************)
(* The enrichment adapters called with a known domain.                     *)
(***************************************************************************)
\* org.domain?.toLowerCase().replace(/^www\./, '') === domain.toLowerCase()
domainMatches(org, domain) ==
  /\ "domain" \in DOMAIN org
  /\ LET d == toLowerCase(org.domain)
     IN (IF startsWith(d, "www.") THEN dropFirst(d, 4) ELSE d) = toLowerCase(domain)

\* getApolloData(company, domain): the record returned and the requests
\* sent, in order; enrich and search are what the two endpoints answer
getApolloDataWithDomain(keys, domain, enrich, search) ==
  IF "APOLLO" \notin keys THEN [returned |-> EmptyObject, requests |-> <<>>]
  ELSE
    LET enriched == domain # "" /\ enrich.kind = "ok"
                    /\ "organization" \in DOMAIN enrich
        requests == (IF domain # "" THEN <<"organizations/enrich">> ELSE <<>>)
                    \o (IF enriched THEN <<>> ELSE <<"organizations/search">>)
        threw == (domain # "" /\ enrich.kind = "throw")
                 \/ (~enriched /\ search.kind = "throw")
        found == ~enriched /\ search.kind = "ok" /\ Len(search.organizations) > 0
        matching == {i \in 1..Len(search.organizations) :
                       domain # "" /\ domainMatches(search.organizations[i], domain)}
        org == IF enriched THEN enrich.organization
               ELSE IF matching # {}
               THEN search.organizations[CHOOSE i \in matching :
                                           \A j \in matching : i <= j]
               ELSE search.organizations[1]
    IN IF threw
       THEN [returned |-> EmptyObject,
             requests |-> IF domain # "" /\ enrich.kind = "throw"
                          THEN <<"organizations/enrich">> ELSE requests]
       ELSE IF ~enriched /\ ~found
       THEN [returned |-> EmptyObject, requests |-> requests]
       ELSE [returned |-> enrichedResult(domain, OrEmpty(org, "location"), org),
             requests |-> requests]

\* getDeepseekData(company, domain): the record returned and the requests
\* sent, in order; enrich is what companies/enrich answers
getDeepseekDataWithDomain(keys, domain, enrich) ==
  IF "DEEPSEEK" \notin keys THEN [returned |-> EmptyObject, requests |-> <<>>]
  ELSE
    LET requests == <<"companies/enrich">>
                    \o (IF domain # "" THEN <<"people/search">> ELSE <<>>)
    IN IF enrich.kind # "ok" \/ "company" \notin DOMAIN enrich
       THEN [returned |-> EmptyObject, requests |-> requests]
       ELSE [returned |-> enrichedResult(domain,
                            OrEmpty(enrich.company, "headquarters_location"),
                            enrich.company),
             requests |-> requests]

(***************************************************************************)
(* The page (src/app/page.tsx).  The variable page holds the state of the  *)
(* component and its search requests in flight.  A string | null state is  *)
(* the set of its string values: {} is null.                               *)
(***************************************************************************)
ITEMS_PER_PAGE == 10

\* the page sends at most MaxRequests search requests
MaxRequests == 2

\* the values given to useState, with no request sent
InitialPage ==
  [query |-> "", results |-> <<>>, generalResponse |-> {}, isLoading |-> FALSE,
   error |-> {}, currentPage |-> 1, inflight |-> {}, latest |-> {}]

\* What awaiting fetch('/api/search') for query q can yield: a rejection, a
\* non-2xx response, a GeneralResponse, or a CompanyResponse of one or eleven
\* records, every second one 'not_found'.
ServerAnswers(q) ==
  LET record(i) ==
        IF i % 2 = 0
        THEN [companyName |-> q \o numToString(i), domain |-> "Not found",
              status |-> "not_found", source |-> "No data found"]
        ELSE [companyName |-> q \o numToString(i), domain |-> "acme.com",
              status |-> "verified", source |-> "OpenAI"]
      companies(n) ==
        [type |-> "companies", results |-> [i \in 1..n |-> record(i)],
         totalCompanies |-> n, processedCompanies |-> n]
  IN { [kind |-> "reject"],
       [kind |-> "response", ok |-> FALSE,
        body |-> [error |-> "Internal server error", details |-> "fetch failed"]],
       [kind |-> "response", ok |-> FALSE, body |-> [error |-> "Invalid query"]],
       [kind |-> "response", ok |-> TRUE,
        body |-> [type |-> "general", text |-> "About " \o q, source |-> "system"]],
       [kind |-> "response", ok |-> TRUE, body |-> companies(1)],
       [kind |-> "response", ok |-> TRUE, body |-> companies(ITEMS_PER_PAGE + 1)] }

\* handleSearch up to its await: the state it sets and the request it sends,
\* which answer will settle
handleSearch(p, answer) ==
  IF trim(p.query) = "" THEN p
  ELSE LET request == [id |-> 1 + Cardinality({r.id : r \in p.latest \cup p.inflight}
                                               \cup UNION {1..r.id : r \in p.latest}),
                       query |-> trim(p.query), answer |-> answer]
       IN [p EXCEPT !.isLoading = TRUE, !.error = {}, !.results = <<>>,
                    !.generalResponse = {}, !.inflight = @ \cup {request},
                    !.latest = {request}]

\* handleSearch after its await, for the request r
handleSearchSettled(p, r) ==
  LET shown ==
        IF r.answer.kind = "reject"
        THEN [p EXCEPT !.error = {[error |-> "Failed to fetch"]}]
        ELSE IF ~r.answer.ok
        THEN [p EXCEPT !.error = {[error |-> "Search failed"]}]
        ELSE IF r.answer.body.type = "general"
        THEN [p EXCEPT !.generalResponse = {r.answer.body.text}]
        ELSE [p EXCEPT !.results = r.answer.body.results]
  IN [shown EXCEPT !.isLoading = FALSE, !.inflight = @ \ {r}]

\* const totalPages = results ? Math.ceil(results.length / ITEMS_PER_PAGE) : 0
totalPages(p) == (Len(p.results) + ITEMS_PER_PAGE - 1) \div ITEMS_PER_PAGE

\* results.slice((currentPage - 1) * ITEMS_PER_PAGE, currentPage * ITEMS_PER_PAGE)
paginatedResults(p) ==
  LET from == (p.currentPage - 1) * ITEMS_PER_PAGE + 1
      to == IF p.currentPage * ITEMS_PER_PAGE < Len(p.results)
            THEN p.currentPage * ITEMS_PER_PAGE ELSE Len(p.results)
  IN SubSeq(p.results, from, to)

\* the error banner: nothing, or the error text and the details shown
banner(p) ==
  {[error |-> e.error, details |-> OrEmpty(e, "details")] : e \in p.error}

\* whether the pagination buttons are rendered
paginationShown(p) ==
  /\ ~\E text \in p.generalResponse : text # ""
  /\ Len(p.results) > 0
  /\ totalPages(p) > 1

(***************************************************************************)
(* Requests.                                                               *)
(***************************************************************************)
\* The pieces queries are built from: two names, white space, a line break,
\* interrogative markers in both letter cases and a question.
QueryPieces ==
  {"A", "G", " ", "\n", "?", "How", "find", "What are the latest AI trends?"}

RECURSIVE QueriesOf(_)
QueriesOf(n) ==
  IF n = 0 THEN {""}
  ELSE LET shorter == QueriesOf(n - 1)
       IN shorter \cup {q \o p : q \in shorter, p \in QueryPieces}

Queries == QueriesOf(MaxPieces)

\* What req.json() yields: a body whose query is a string, a body whose
\* query is not a string, a body without a query, or a parse failure.
BodyKinds == {"string", "nonstring", "missing", "notjson"}

AdapterOrder == <<"EXA", "OpenAI", "Apollo", "Deepseek">>
Adapters == {AdapterOrder[j] : j \in 1..Len(AdapterOrder)}
Fields == <<"domain", "geography", "revenue", "employees", "linkedinUrl">>

NoResponse == [none |-> TRUE]

VARIABLES
  page,       \* the page component: its state and its requests in flight
  env,        \* extractCompanyNames: what its three outbound calls do
  bodyKind,   \* the kind of the request body
  query,      \* the query of the request body ("" unless bodyKind = "string")
  keys,       \* the credentials configured in process.env
  pc,         \* where the handler is: start, fanout, classify, extract,
              \* details, natural, done
  lines,      \* the company names being processed
  api,        \* list path: api[i][a] is the result of adapter a for lines[i]
  sources,    \* list path: sources[i] is the sources array of lines[i]
  results,    \* results[i] is the record of lines[i], or Pending
  resolved,   \* the companies whose promise has resolved
  intent,     \* the value returned by processQueryWithLangChain
  calls,      \* the LLM classification and extraction calls issued
  response    \* the response returned, or NoResponse

vars == <<page, env, bodyKind, query, keys, pc, lines, api, sources, results,
          resolved,
          intent, calls, response>>

Init ==
  /\ env = EmptyObject
  /\ page = InitialPage
  /\ bodyKind \in BodyKinds
  /\ query \in IF bodyKind = "string" THEN Queries ELSE {""}
  /\ keys \in KeyConfigs
  /\ pc = "start"
  /\ lines = <<>>
  /\ api = <<>>
  /\ sources = <<>>
  /\ results = <<>>
  /\ resolved = {}
  /\ intent = Null
  /\ calls = {}
  /\ response = NoResponse

json(status, body) == [status |-> status, body |-> body]

\* a catch that answers with the default status
internalErrorDefaultStatus(details) ==
  json(200, [error |-> "Internal server error", details |-> details])

\* the handler's catch: error.message is passed on as details
internalError(details) ==
  json(500, [error |-> "Internal server error", details |-> details])

(***************************************************************************)
(* POST, up to the dispatch: body parsing, validation, list detection.     *)
(***************************************************************************)
Receive ==
  /\ pc = "start"
  /\ IF bodyKind = "notjson"
     THEN /\ response' = internalError("Unexpected end of JSON input")
          /\ pc' = "done"
          /\ UNCHANGED <<lines, api, sources, results>>
     ELSE IF bodyKind # "string" \/ query = ""
     THEN /\ response' = json(400, [error |-> "Invalid query"])
          /\ pc' = "done"
          /\ UNCHANGED <<lines, api, sources, results>>
     ELSE IF isCompanyList(query)
     THEN /\ lines' = queryLines(query)
          /\ api' = [i \in 1..Len(queryLines(query)) |-> [a \in Adapters |-> Pending]]
          /\ sources' = [i \in 1..Len(queryLines(query)) |-> <<>>]
          /\ results' = [i \in 1..Len(queryLines(query)) |-> Pending]
          /\ pc' = "fanout"
          /\ UNCHANGED response
     ELSE /\ pc' = "classify"
          /\ UNCHANGED <<lines, api, sources, results, response>>
  /\ UNCHANGED <<page, env, bodyKind, query, keys, resolved, intent, calls>>

(***************************************************************************)
(* List path: the four adapter closures of one company.  Each closure      *)
(* pushes its name onto the company's sources array when it has a result   *)
(* and resolves to that result or to null.                                 *)
(***************************************************************************)
\* the credential each adapter reads from process.env
Credential ==
  [EXA |-> "EXA", OpenAI |-> "OPENAI", Apollo |-> "APOLLO", Deepseek |-> "DEEPSEEK"]

\* An adapter without its credential returns before any outbound call: its
\* closure settles in the microtasks of the handler's own turn.
immediate(a) == Credential[a] \notin keys

\* A closure that awaits an outbound call settles in a later turn of the
\* event loop, after every closure that awaits none.
ioReady ==
  \A i \in 1..Len(lines), a \in Adapters : immediate(a) => api[i][a] # Pending

\* sources.push(name); return data  /  return null
settle(i, a, data) ==
  /\ immediate(a) \/ ioReady
  /\ api' = [api EXCEPT ![i][a] = data]
  /\ sources' = IF data = Null THEN sources
                ELSE [sources EXCEPT ![i] = Append(@, a)]
  /\ UNCHANGED <<page, env, bodyKind, query, keys, pc, lines, results, resolved, intent,
                 calls, response>>

exaClosure(company, bSearch, bDetails) ==
  LET found == searchExaAPI(keys, bSearch)
  IN IF found = Null THEN Null
     ELSE LET details == getCompanyDetailsFromExa(keys, company, bDetails)
          IN IF keysLength(details) > 0
             THEN Spread(details,
                         [domain |-> IF found.domain # "" THEN found.domain
                                     ELSE details.domain])
             ELSE Null

openaiClosure(company, b) ==
  LET data == getCompanyDetails(keys, company, b)
  IN IF keysLength(data) > 0 THEN data ELSE Null

apolloClosure(b) ==
  LET data == getApolloData(keys, b)
  IN IF keysLength(data) > 0 THEN data ELSE Null

deepseekClosure(b) ==
  LET data == getDeepseekData(keys, b)
  IN IF keysLength(data) > 0 THEN data ELSE Null

ExaSettles(i) ==
  /\ pc = "fanout" /\ api[i]["EXA"] = Pending
  /\ \E bSearch \in ExaSearchBehaviours, bDetails \in ExaDetailBehaviours :
       settle(i, "EXA", exaClosure(lines[i], bSearch, bDetails))

OpenAISettles(i) ==
  /\ pc = "fanout" /\ api[i]["OpenAI"] = Pending
  /\ \E b \in OpenAIBehaviours :
       settle(i, "OpenAI", openaiClosure(lines[i], b))

ApolloSettles(i) ==
  /\ pc = "fanout" /\ api[i]["Apollo"] = Pending
  /\ \E b \in ApolloBehaviours : settle(i, "Apollo", apolloClosure(b))

DeepseekSettles(i) ==
  /\ pc = "fanout" /\ api[i]["Deepseek"] = Pending
  /\ \E b \in DeepseekBehaviours : settle(i, "Deepseek", deepseekClosure(b))

(***************************************************************************)
(* List path: the merge of one company, once Promise.all over its four     *)
(* closures has resolved.                                                  *)
(***************************************************************************)
\* bestData.f || data.f || ''
firstTruthy(bestData, data, f) ==
  IF OrEmpty(bestData, f) # "" THEN bestData[f] ELSE OrEmpty(data, f)

\* one step of apiResults.forEach
combine(bestData, data) ==
  IF data = Null THEN bestData
  ELSE Spread(bestData, [k \in {Fields[j] : j \in 1..Len(Fields)}
                           |-> firstTruthy(bestData, data, k)])

RECURSIVE combineAll(_, _)
combineAll(bestData, apiResults) ==
  IF Len(apiResults) = 0 THEN bestData
  ELSE \* the comprehension binds the record combined so far as a value
       CHOOSE r \in {combineAll(next, Tail(apiResults)) :
                      next \in {combine(bestData, Head(apiResults))}} : TRUE

\* Promise.all resolves to the results in the order of the promises given
apiResultsOf(settled) == [j \in 1..Len(AdapterOrder) |-> settled[AdapterOrder[j]]]

\* sources.join(', ') || 'No data found'
sourceOf(srcs) == IF join(srcs, ", ") = "" THEN "No data found" ELSE join(srcs, ", ")

\* { companyName: company, ...bestData, source: ... }
companyResult(company, settled, srcs) ==
  CHOOSE r \in {Spread(named, [source |-> sourceOf(srcs)]) :
                  named \in {Spread([companyName |-> company], bestData) :
                    bestData \in {combineAll(EmptyObject, apiResultsOf(settled))}}} :
    TRUE

\* results collected in the order the companies complete
storeInCompletionOrder(res, i, rec) ==
  LET free == CHOOSE k \in 1..Len(res) :
                res[k] = Pending /\ \A j \in 1..(k - 1) : res[j] # Pending
  IN [res EXCEPT ![free] = rec]

\* Promise.all(companyPromises): the record of lines[i] is element i
storeResult(res, i, rec) == [res EXCEPT ![i] = rec]

\* a merge that starts as soon as one adapter call of the company has settled
MergeOnFirstSettled(i) ==
  /\ pc = "fanout" /\ i \notin resolved
  /\ \E a \in Adapters : api[i][a] # Pending
  /\ results' = storeResult(results, i, companyResult(lines[i], api[i], sources[i]))
  /\ resolved' = resolved \cup {i}
  /\ UNCHANGED <<page, env, bodyKind, query, keys, pc, lines, api, sources, intent, calls,
                 response>>

\* MergeCompany for the first company only
MergeFirstCompanyOnly(i) ==
  /\ i = 1
  /\ pc = "fanout" /\ i \notin resolved
  /\ \A a \in Adapters : api[i][a] # Pending
  /\ results' = storeResult(results, i, companyResult(lines[i], api[i], sources[i]))
  /\ resolved' = resolved \cup {i}
  /\ UNCHANGED <<page, env, bodyKind, query, keys, pc, lines, api, sources, intent, calls,
                 response>>

MergeCompany(i) ==
  /\ pc = "fanout" /\ i \notin resolved
  /\ \A a \in Adapters : api[i][a] # Pending
  /\ results' = storeResult(results, i, companyResult(lines[i], api[i], sources[i]))
  /\ resolved' = resolved \cup {i}
  /\ UNCHANGED <<page, env, bodyKind, query, keys, pc, lines, api, sources, intent, calls,
                 response>>

\* status: result.domain && result.domain !== 'Not found' ? 'verified' : 'not_found'
statusOf(result) ==
  IF OrEmpty(result, "domain") # "" /\ result.domain # "Not found"
  THEN "verified" ELSE "not_found"

withStatus(result) == Spread(result, [status |-> statusOf(result)])

companyResponse(total, res) ==
  json(200, [type |-> "companies",
             results |-> [i \in 1..Len(res) |-> res[i]],
             totalCompanies |-> total,
             processedCompanies |-> Len(res)])

RespondList ==
  /\ pc = "fanout"
  /\ resolved = 1..Len(lines)
  /\ response' = companyResponse(Len(lines),
                                 [i \in 1..Len(results) |-> withStatus(results[i])])
  /\ pc' = "done"
  /\ UNCHANGED <<page, env, bodyKind, query, keys, lines, api, sources, results, resolved,
                 intent, calls>>

(***************************************************************************)
(* Natural-language path: intent classification, name extraction, the      *)
(* single-provider lookup of each extracted name, and the free-text        *)
(* answer.                                                                 *)
(***************************************************************************)
\* const enhancedQuery = await processQueryWithLangChain(query);
\* if (enhancedQuery.searchIntent === 'company') ...
Classify ==
  /\ pc = "classify"
  /\ \E b \in ClassifierBehavioursFor(keys) :
       IF b.kind = "noclient"
       THEN \* the constructor throws: the handler's catch
            /\ intent' = intent
            /\ response' = internalError("OpenAI or Azure OpenAI API key not found")
            /\ pc' = "done"
       ELSE LET enhancedQuery == processQueryWithLangChain(query, b)
            IN /\ intent' = enhancedQuery
               /\ IF enhancedQuery = Null
                  THEN \* reading searchIntent of null throws: the handler's catch
                       /\ response' = internalError(
                            "Cannot read properties of null (reading 'searchIntent')")
                       /\ pc' = "done"
                  ELSE /\ response' = response
                       /\ pc' = IF OrEmpty(enhancedQuery, "searchIntent") = "company"
                                THEN "extract" ELSE "natural"
  /\ calls' = calls \cup {"intent-classifier"}
  /\ UNCHANGED <<page, env, bodyKind, query, keys, lines, api, sources, results, resolved>>

\* const companyNames = await extractCompanyNamesFromPerplexity(...);
\* if (companyNames.length > 0) ...
ExtractNames ==
  /\ pc = "extract"
  /\ \E bIntent \in PerplexityBehaviours, bExtract \in PerplexityBehaviours :
       LET companyNames == extractCompanyNamesFromPerplexity(keys, bIntent, bExtract)
       IN /\ lines' = companyNames
          /\ results' = [i \in 1..Len(companyNames) |-> Pending]
          /\ pc' = IF Len(companyNames) > 0 THEN "details" ELSE "natural"
          /\ calls' = IF "PERPLEXITY" \notin keys THEN calls
                      ELSE IF bIntent.kind # "ok" THEN calls \cup {"name-intent"}
                      ELSE calls \cup {"name-intent", "name-extraction"}
  /\ UNCHANGED <<page, env, bodyKind, query, keys, api, sources, resolved, intent,
                 response>>

\* the record built for one extracted name from getCompanyDetails
detailsResult(company, data) ==
  LET domain == IF OrEmpty(data, "domain") # "" THEN data.domain ELSE "Not found"
  IN [companyName |-> company,
      domain |-> domain,
      status |-> IF domain # "Not found" THEN "verified" ELSE "not_found",
      geography |-> OrEmpty(data, "geography"),
      revenue |-> OrEmpty(data, "revenue"),
      employees |-> OrEmpty(data, "employees"),
      linkedinUrl |-> OrEmpty(data, "linkedinUrl"),
      source |-> "OpenAI"]

DetailsSettles(i) ==
  /\ pc = "details" /\ i \notin resolved
  /\ \E b \in OpenAIBehaviours :
       results' = storeResult(results, i,
                              detailsResult(lines[i], getCompanyDetails(keys, lines[i], b)))
  /\ resolved' = resolved \cup {i}
  /\ UNCHANGED <<page, env, bodyKind, query, keys, pc, lines, api, sources, intent, calls,
                 response>>

RespondDetails ==
  /\ pc = "details"
  /\ resolved = 1..Len(lines)
  /\ response' = companyResponse(Len(lines), results)
  /\ pc' = "done"
  /\ UNCHANGED <<page, env, bodyKind, query, keys, lines, api, sources, results, resolved,
                 intent, calls>>

\* const response = await getNaturalResponse(query);
RespondNatural ==
  /\ pc = "natural"
  /\ \E b \in NaturalBehaviours :
       response' = json(200, [type |-> "general",
                              text |-> getNaturalResponse(keys, b),
                              source |-> "system"])
  /\ pc' = "done"
  /\ UNCHANGED <<page, env, bodyKind, query, keys, lines, api, sources, results, resolved,
                 intent, calls>>

Next ==
  \/ Receive
  \/ \E i \in 1..Len(lines) : ExaSettles(i)
  \/ \E i \in 1..Len(lines) : OpenAISettles(i)
  \/ \E i \in 1..Len(lines) : ApolloSettles(i)
  \/ \E i \in 1..Len(lines) : DeepseekSettles(i)
  \/ \E i \in 1..Len(lines) : MergeCompany(i)
  \/ RespondList
  \/ Classify
  \/ ExtractNames
  \/ \E i \in 1..Len(lines) : DetailsSettles(i)
  \/ RespondDetails
  \/ RespondNatural

Spec == Init /\ [][Next]_vars

(***************************************************************************)
(* extractCompanyNames applied to a query, under every behaviour of its    *)
(* three outbound calls.                                                   *)
(***************************************************************************)
ExtractPieces == {"Acme", "1.", "Note: x", "{", "}", "\n", ","}

RECURSIVE ExtractQueriesOf(_)
ExtractQueriesOf(n) ==
  IF n = 0 THEN {""}
  ELSE LET shorter == ExtractQueriesOf(n - 1)
       IN shorter \cup {q \o p : q \in shorter, p \in ExtractPieces}

ExtractKeyConfigs == {{"PERPLEXITY", "DEEPSEEK"}, {"DEEPSEEK"}, {}}

ExtractInit ==
  /\ env \in [intent : {[kind |-> "notok"], [kind |-> "ok", content |-> "LIST"]},
               extract : PerplexityBehaviours,
               second : SecondBehaviours]
  /\ page = InitialPage
  /\ bodyKind = "string"
  /\ query \in ExtractQueriesOf(MaxExtractPieces)
  /\ keys \in ExtractKeyConfigs
  /\ pc = "names"
  /\ lines = <<>>
  /\ api = <<>>
  /\ sources = <<>>
  /\ results = <<>>
  /\ resolved = {}
  /\ intent = Null
  /\ calls = {}
  /\ response = NoResponse

\* const names = await extractCompanyNames(query)
ExtractCompanyNames ==
  /\ pc = "names"
  /\ lines' = extractCompanyNames(keys, query, env.intent, env.extract, env.second)
  /\ pc' = "returned"
  /\ UNCHANGED <<page, env, bodyKind, query, keys, api, sources, results, resolved,
                 intent, calls, response>>

ExtractNext == ExtractCompanyNames

ExtractSpec == ExtractInit /\ [][ExtractNext]_vars

(***************************************************************************)
(* Specifications of the helper functions taken one call at a time.  env   *)
(* holds the function called, its arguments and what its outbound requests *)
(* answer; keys holds the credentials configured; response holds what the  *)
(* call returned (for a function that may return null or undefined, the    *)
(* set of its results: {} is null/undefined).                              *)
(*   CallSpec     verifyLinkedInUrl, verifyEmail, formatRevenue, and       *)
(*                getApolloData and getDeepseekData with a domain          *)
(*   ContactSpec  findContactPersons and findApolloContacts                *)
(***************************************************************************)
\* the sequences of at most n elements of S
SeqsUpTo(S, n) == UNION {[1..k -> S] : k \in 0..n}

HelperCalls ==
  LET \* the organizations an organization search answers with
      Organizations ==
        { [domain |-> "other.io", location |-> "Oslo"],
          [domain |-> "WWW.Acme.com", location |-> "Austin, TX"],
          [domain |-> "https://acme.com", location |-> "Boston, MA"] }
      LinkedInUrls ==
        {s \o h \o r :
           s \in {"", "https://", "http://", "HTTPS://"},
           h \in {"", "www.", "WWW."},
           r \in {"linkedin.com/company/acme", "linkedin.com/company/acme/",
                  "LINKEDIN.COM/COMPANY/ACME", "linkedin.com/in/jdoe",
                  "linkedin.com/company/acme/about",
                  "example.com/company/acme", ""}}
      Emails ==
        {l \o "@" \o h :
           l \in {"ceo", "CEO", "info", "j.doe", ".ceo", "tester", ""},
           h \in {"acme.com", "ACME.COM", "sub.acme.com", "acme.c", "acme"}}
        \cup {"ceo"}
      RevenueStrings ==
        {"", "$1.2B", "$5M", "$3T", "$750K", "1.2B", "1.2b", "12 m",
         "$1.2 billion", "$1.2B(2023)", "500K (2023)", "about $2.5M a year",
         "unknown"}
      Enrichments ==
        {[kind |-> "throw"], [kind |-> "notok"], [kind |-> "ok"],
         [kind |-> "ok",
          organization |-> [domain |-> "acme.com", location |-> "Austin, TX"]]}
      CompanyEnrichments ==
        {[kind |-> "throw"], [kind |-> "ok"],
         [kind |-> "ok",
          company |-> [domain |-> "acme.com",
                       headquarters_location |-> "Austin, TX"]]}
      OrganizationSearches ==
        {[kind |-> "throw"], [kind |-> "notok"]}
        \cup [kind : {"ok"}, organizations : SeqsUpTo(Organizations, MaxOrganizations)]
  IN [fn : {"verifyLinkedInUrl"}, url : LinkedInUrls, probe : ProbeOutcomes]
     \cup [fn : {"verifyEmail"}, email : Emails,
           domain : {"acme.com", "Acme.com"}, probe : ProbeOutcomes]
     \cup [fn : {"formatRevenue"}, kind : {"string"}, revenue : RevenueStrings]
     \cup [fn : {"formatRevenue"}, kind : {"number"},
           revenue : {0, 999, 1500, 1200000, 1250000000}]
     \cup [fn : {"getApolloData"}, domain : {"", "acme.com", "Acme.com"},
           enrich : Enrichments, search : OrganizationSearches]
     \cup [fn : {"getDeepseekData"}, domain : {"", "acme.com"},
           enrich : CompanyEnrichments]

ContactCalls ==
  LET \* the people a people search answers with
      People ==
        { [first_name |-> "Ann", last_name |-> "Lee", title |-> "CEO",
           email |-> "ann@acme.com", email_status |-> "verified",
           email_confidence |-> 95, employment_current |-> TRUE,
           linkedin_url |-> "linkedin.com/company/acme"],
          [first_name |-> "Bob", last_name |-> "Ray", title |-> "Vice President",
           email |-> "bob@acme.com", email_status |-> "verified",
           email_confidence |-> 80, employment_current |-> TRUE],
          [first_name |-> "Cy", last_name |-> "Poe", title |-> "President",
           email |-> "cy@notacme.com", email_status |-> "verified",
           email_confidence |-> 95, employment_current |-> TRUE],
          [first_name |-> "Dee", last_name |-> "Fox", title |-> "VP",
           email |-> "dee@acme.com", email_status |-> "verified",
           email_confidence |-> 95, employment_current |-> TRUE] }
      \* POST https://api.deepseek.com/v1/people/verify
      VerifyBehaviours ==
        { [kind |-> "notok"],
          [kind |-> "ok"],
          [kind |-> "ok", verification |-> [confidence |-> 50]],
          [kind |-> "ok", verification |-> [confidence |-> 95]],
          [kind |-> "ok", verification |-> [confidence |-> 80,
                                            email |-> "ann.lee@acme.com"]] }
      DeepseekSearches ==
        {[kind |-> "throw"], [kind |-> "notok"]}
        \cup [kind : {"ok"}, probe : ProbeOutcomes]
        \cup [kind : {"ok"}, people : SeqsUpTo(People, MaxDeepseekPeople),
              probe : ProbeOutcomes]
      ApolloSearches ==
        {[kind |-> "throw"], [kind |-> "notok"]}
        \cup [kind : {"ok"}, people : SeqsUpTo(People, MaxApolloPeople),
              verify : VerifyBehaviours]
  IN [fn : {"findContactPersons"}, domain : {"acme.com"},
      search : DeepseekSearches]
     \cup [fn : {"findApolloContacts"}, domain : {"", "acme.com"},
           search : ApolloSearches]

\* the credential configurations a helper is called under
HelperKeyConfigs(fn) ==
  CASE fn \in {"findContactPersons", "getDeepseekData"} -> {{}, {"DEEPSEEK"}}
    [] fn = "findApolloContacts" -> {{}, {"APOLLO"}, {"APOLLO", "DEEPSEEK"}}
    [] fn = "getApolloData" -> {{}, {"APOLLO"}}
    [] OTHER -> {{}}

callInit(Calls) ==
  /\ env \in Calls
  /\ page = InitialPage
  /\ bodyKind = "string"
  /\ query = ""
  /\ keys \in HelperKeyConfigs(env.fn)
  /\ pc = "call"
  /\ lines = <<>>
  /\ api = <<>>
  /\ sources = <<>>
  /\ results = <<>>
  /\ resolved = {}
  /\ intent = Null
  /\ calls = {}
  /\ response = NoResponse

\* formatRevenue(revenue): {} is undefined
formatRevenue(kind, revenue) ==
  IF kind = "string"
  THEN IF revenue = "" THEN {} ELSE {formatRevenueString(revenue)}
  ELSE IF revenue = 0 THEN {} ELSE {formatRevenueNumber(revenue)}

\* the call returns
returns(result) ==
  /\ response' = result
  /\ pc' = "returned"
  /\ UNCHANGED <<page, env, bodyKind, query, keys, lines, api, sources, results,
                 resolved, intent, calls>>

VerifyLinkedInUrl ==
  /\ pc = "call" /\ env.fn = "verifyLinkedInUrl"
  /\ returns([returned |-> verifyLinkedInUrl(env.url, env.probe)])

VerifyEmail ==
  /\ pc = "call" /\ env.fn = "verifyEmail"
  /\ returns([returned |-> verifyEmail(env.email, env.domain, env.probe)])

FormatRevenue ==
  /\ pc = "call" /\ env.fn = "formatRevenue"
  /\ returns([returned |-> formatRevenue(env.kind, env.revenue)])

FindContactPersons ==
  /\ pc = "call" /\ env.fn = "findContactPersons"
  /\ returns([returned |-> findContactPersons(keys, env.domain, env.search)])

FindApolloContacts ==
  /\ pc = "call" /\ env.fn = "findApolloContacts"
  /\ returns([returned |-> findApolloContacts(keys, env.domain, env.search)])

GetApolloData ==
  /\ pc = "call" /\ env.fn = "getApolloData"
  /\ returns(getApolloDataWithDomain(keys, env.domain, env.enrich, env.search))

GetDeepseekData ==
  /\ pc = "call" /\ env.fn = "getDeepseekData"
  /\ returns(getDeepseekDataWithDomain(keys, env.domain, env.enrich))

CallNext ==
  \/ VerifyLinkedInUrl
  \/ VerifyEmail
  \/ FormatRevenue
  \/ GetApolloData
  \/ GetDeepseekData

CallSpec == callInit(HelperCalls) /\ [][CallNext]_vars

ContactNext == FindContactPersons \/ FindApolloContacts

ContactSpec == callInit(ContactCalls) /\ [][ContactNext]_vars

(***************************************************************************)
(* Scheduling.  The event loop runs every continuation that is ready, so   *)
(* the steps of the handler that wait for no provider are weakly fair: the *)
(* parse of the body, a closure that returns without a request because its *)
(* credential is missing, the merge of a company whose closures have all   *)
(* settled, and the responses.  A step that waits for the answer of a      *)
(* provider is not fair: nothing in the handler bounds that wait.          *)
(***************************************************************************)
ContinuationStep ==
  \/ Receive
  \/ \E i \in 1..Len(lines) :
       \/ immediate("EXA") /\ ExaSettles(i)
       \/ immediate("OpenAI") /\ OpenAISettles(i)
       \/ immediate("Apollo") /\ ApolloSettles(i)
       \/ immediate("Deepseek") /\ DeepseekSettles(i)
       \/ MergeCompany(i)
       \/ "OPENAI" \notin keys /\ DetailsSettles(i)
  \/ RespondList
  \/ RespondDetails
  \/ "OPENAI" \notin keys /\ (Classify \/ RespondNatural)
  \/ "PERPLEXITY" \notin keys /\ ExtractNames

\* The requests of the fair specification: a malformed body, a list of two
\* names, a single name, and two queries that go to the classifier.
FairInit ==
  /\ Init
  /\ query \in {"", "A\nG", "G", "How", "?"}

FairSpec == FairInit /\ [][Next]_vars /\ WF_vars(ContinuationStep)

(***************************************************************************)
(* Specification of the page: the user types, presses Enter, submits the   *)
(* form and clicks Previous and Next, and requests settle in any order.    *)
(***************************************************************************)
PageInit ==
  /\ page = InitialPage
  /\ env = EmptyObject
  /\ bodyKind = "string"
  /\ query = ""
  /\ keys = {}
  /\ pc = "idle"
  /\ lines = <<>>
  /\ api = <<>>
  /\ sources = <<>>
  /\ results = <<>>
  /\ resolved = {}
  /\ intent = Null
  /\ calls = {}
  /\ response = NoResponse

\* the page moves to the state p
render(p) ==
  /\ page' = p
  /\ UNCHANGED <<bodyKind, query, keys, pc, lines, api, sources, results,
                 resolved, intent, calls, response, env>>

\* onChange of the textarea
SetQuery ==
  \E q \in {"", " ", "A", "B"} :
    /\ q # page.query
    /\ render([page EXCEPT !.query = q])

\* whether another request may be sent
MaySend ==
  /\ trim(page.query) # ""
  /\ \A r \in page.latest : r.id < MaxRequests

\* handleKeyPress with e.key === 'Enter'
PressEnter ==
  /\ MaySend
  /\ \E answer \in ServerAnswers(trim(page.query)) :
       render(handleSearch(page, answer))

\* onSubmit of the form, through the button, which is disabled while loading
SubmitForm ==
  /\ ~page.isLoading
  /\ MaySend
  /\ \E answer \in ServerAnswers(trim(page.query)) :
       render(handleSearch(page, answer))

\* a fetch settles and handleSearch resumes
FetchSettles ==
  \E r \in page.inflight : render(handleSearchSettled(page, r))

\* onClick of Previous
PreviousPage ==
  /\ paginationShown(page) /\ page.currentPage # 1
  /\ render([page EXCEPT !.currentPage = IF @ - 1 > 1 THEN @ - 1 ELSE 1])

\* onClick of Next
NextPage ==
  /\ paginationShown(page) /\ page.currentPage # totalPages(page)
  /\ render([page EXCEPT !.currentPage =
               IF @ + 1 < totalPages(page) THEN @ + 1 ELSE totalPages(page)])

PageNext ==
  \/ SetQuery
  \/ PressEnter
  \/ SubmitForm
  \/ FetchSettles
  \/ PreviousPage
  \/ NextPage

PageSpec == PageInit /\ [][PageNext]_vars

(***************************************************************************)
(* Properties.                                                             *)
(***************************************************************************)
\* the handler took the list path / has answered on it
ListPath == Len(api) > 0
ListDone == ListPath /\ pc = "done"

\* the handler has answered with a CompanyResponse
CompaniesResponse ==
  pc = "done" /\ response.status = 200 /\ response.body.type = "companies"

\* the non-empty lines of a query, each trimmed
NonEmptyLines(q) == SelectSeq(mapTrim(split(q, "\n")), LAMBDA l : l # "")

FieldSet == {Fields[j] : j \in 1..Len(Fields)}

\* the placeholder domains of a failing adapter
Placeholders == {"No API Key", "No Response", "Parse Error", "API Error", "Error"}

\* the domains that stand for "no domain"
SentinelDomains == Placeholders \cup {"Not found"}

\* an adapter result that is a failure: null, a placeholder record, or a
\* record without any non-empty field
AdapterFailed(data) ==
  \/ data = Null
  \/ OrEmpty(data, "source") \in {"Error", "OpenAI Error", "EXA Error"}
  \/ \A f \in FieldSet : OrEmpty(data, f) = ""

\* an adapter result that holds a real value for field f
RealValue(data, f) ==
  /\ ~AdapterFailed(data)
  /\ OrEmpty(data, f) \notin ({""} \cup SentinelDomains)

\* the candidates for field f of company i, in the fixed evaluation order
Candidates(i, f) ==
  [j \in 1..Len(AdapterOrder) |->
     LET data == api[i][AdapterOrder[j]]
     IN IF data = Null \/ f \notin DOMAIN data THEN {} ELSE {data[f]}]

\* C1: every query that takes the list path with n non-empty lines is
\* answered with a CompanyResponse of exactly n records, record i carrying
\* the i-th trimmed line as companyName, and totalCompanies =
\* processedCompanies = n, whatever the adapters do; a record is stored
\* under the position of its line as soon as its company resolves.
C1_ListResponseComplete ==
  ListPath =>
    LET names == NonEmptyLines(query)
        n == Len(names)
    IN /\ Len(results) = n
       /\ \A i \in 1..n : results[i] # Pending => results[i].companyName = names[i]
       /\ pc = "done" =>
            /\ response.status = 200
            /\ response.body.type = "companies"
            /\ Len(response.body.results) = n
            /\ \A i \in 1..n : response.body.results[i].companyName = names[i]
            /\ response.body.totalCompanies = n
            /\ response.body.processedCompanies = n

\* C1 witness: a two-name list is answered where the semantic search of the
\* first name returned nothing and its completion call threw, while the
\* completion call of the second name succeeded.
C1_Witness ==
  /\ ListDone
  /\ Len(lines) = 2 /\ lines[1] # lines[2]
  /\ api[1]["EXA"] = Null
  /\ api[1]["OpenAI"].domain = "API Error"
  /\ api[2]["OpenAI"].domain = "acme.co"
  /\ response.body.processedCompanies = 2

\* C2: in every CompanyResponse each record has status 'verified' if and
\* only if its domain is non-empty and none of the sentinel tokens
\* 'Not found', 'Error', 'Parse Error', 'API Error', 'No Response',
\* 'No API Key'.
C2_StatusIffRealDomain ==
  CompaniesResponse =>
    \A i \in 1..Len(response.body.results) :
      LET r == response.body.results[i]
      IN (r.status = "verified")
           <=> (OrEmpty(r, "domain") # "" /\ r.domain \notin SentinelDomains)

\* C3: on the list path, a company for which every one of the four adapters
\* fails, has no credential or returns empty gets a record with domain "",
\* status 'not_found' and source 'No data found'.
C3_AllFailRecord ==
  ListDone =>
    \A i \in 1..Len(lines) :
      (\A a \in Adapters : AdapterFailed(api[i][a])) =>
        LET r == response.body.results[i]
        IN /\ OrEmpty(r, "domain") = ""
           /\ r.status = "not_found"
           /\ r.source = "No data found"

\* C4: on the list path, when one adapter of a company fails while another
\* returns a real value for a field, the merged field holds a value returned
\* by a successful adapter and never a failing adapter's placeholder.
C4_NoPlaceholderInMerged ==
  ListDone =>
    /\ CompaniesResponse
    /\ \A i \in 1..Len(lines), f \in FieldSet :
         ( /\ \E a \in Adapters : AdapterFailed(api[i][a])
           /\ \E a \in Adapters : RealValue(api[i][a], f) )
         => /\ OrEmpty(results[i], f) \notin Placeholders
            /\ \E a \in Adapters :
                 RealValue(api[i][a], f) /\ results[i][f] = api[i][a][f]

\* C5: each merged field is the longest surviving candidate among the
\* adapters' partial records, the earliest adapter winning among candidates
\* of equal length.
C5_LongestCandidateWins ==
  ListDone =>
    \A i \in 1..Len(lines), f \in FieldSet :
      findMostReliableValue(Candidates(i, f)) # {}
        => OrEmpty(results[i], f) \in findMostReliableValue(Candidates(i, f))

\* C6: when every partial record's value for a field is empty, 'Not
\* available' or 'undefined', the merged value of that field is "".
C6_SentinelsMergeToEmpty ==
  ListDone =>
    \A i \in 1..Len(lines), f \in FieldSet :
      (\A a \in Adapters :
          \/ api[i][a] = Null
          \/ OrEmpty(api[i][a], f) \in {"", "Not available", "undefined"})
      => OrEmpty(results[i], f) = ""

\* C7: the source of a merged record names exactly the adapters that
\* contributed at least one non-empty, non-placeholder field value, and is
\* 'No data found' exactly when no adapter contributed.
C7_SourceNamesContributors ==
  ListDone =>
    \A i \in 1..Len(lines) :
      LET contributors == {a \in Adapters :
                             \E f \in FieldSet : RealValue(api[i][a], f)}
          source == response.body.results[i].source
      IN /\ \A a \in Adapters : includes(source, a) <=> a \in contributors
         /\ (source = "No data found") <=> (contributors = {})

\* C8: the merged record is determined by the four adapter results alone,
\* whatever the order in which the calls complete: its source lists the
\* adapters that returned a result in the fixed order EXA, OpenAI, Apollo,
\* Deepseek.
C8_SourceInFixedOrder ==
  ListDone =>
    \A i \in 1..Len(lines) :
      response.body.results[i].source
        = sourceOf(SelectSeq(AdapterOrder, LAMBDA a : api[i][a] # Null))

\* C9 as stated: for a query whose lines are all non-blank and which
\* contains none of the markers as written, the names processed are exactly
\* its lines and no classification or extraction call is made.
C9_AsStated ==
  (bodyKind = "string" /\ query # "" /\ pc # "start") =>
    LET typed == split(query, "\n")
    IN ( /\ \A i \in 1..Len(typed) : trim(typed[i]) # ""
         /\ \A m \in Markers : ~includes(query, m) )
       => (lines = typed /\ calls = {})

\* C9: for a query whose lines are all non-blank and which contains none of
\* the markers in any letter case, the names processed are exactly its
\* lines, each trimmed of surrounding white space, in the original order,
\* and no classification or extraction call is made.
C9_ListLinesAreNames ==
  (bodyKind = "string" /\ query # "" /\ pc # "start") =>
    LET typed == split(query, "\n")
        lower == toLowerCase(query)
    IN ( /\ \A i \in 1..Len(typed) : trim(typed[i]) # ""
         /\ \A m \in Markers : ~includes(lower, m) )
       => (lines = mapTrim(typed) /\ calls = {} /\ ListPath)

\* C9 witness: a list whose line carries surrounding white space has been
\* answered under its trimmed name.
C9_Witness ==
  /\ ListDone /\ calls = {}
  /\ \A i \in 1..Len(split(query, "\n")) : trim(split(query, "\n")[i]) # ""
  /\ lines # split(query, "\n")
  /\ response.body.results[1].companyName = trim(split(query, "\n")[1])

IsGeneralResponse(r) ==
  /\ r.status = 200
  /\ DOMAIN r.body = {"type", "text", "source"}
  /\ r.body.type = "general"

IsCompanyResponse(r) ==
  /\ r.status = 200
  /\ DOMAIN r.body = {"type", "results", "totalCompanies", "processedCompanies"}
  /\ r.body.type = "companies"

IsErrorResponse(r) ==
  /\ r.status \notin 200..299
  /\ "error" \in DOMAIN r.body
  /\ "type" \notin DOMAIN r.body

\* C11: a request is answered exactly once, when the handler ends: the
\* response is a GeneralResponse, a CompanyResponse or an error body with a
\* non-2xx status, never a response of type 'people', and once given it
\* does not change.
C11_OneResponseOfThreeShapes ==
  /\ [](/\ (pc = "done") <=> (response # NoResponse)
        /\ response # NoResponse =>
             /\ \/ IsGeneralResponse(response)
                \/ IsCompanyResponse(response)
                \/ IsErrorResponse(response)
             /\ ("type" \in DOMAIN response.body => response.body.type # "people"))
  /\ [][response # NoResponse => response' = response]_vars

\* C11 witness: each of the three shapes can be the answer; here the error
\* body, given with status 500 after the classifier returned null.
C11_Witness ==
  /\ pc = "done"
  /\ IsErrorResponse(response)
  /\ response.status = 500
  /\ "intent-classifier" \in calls

\* C12: a request whose input is malformed (body that is not JSON, body
\* without a query, query that is not a string, empty query) is answered
\* with status 400 and an error message, and status 500 is given only for
\* faults that the caller's input did not cause.
C12_MalformedInputIs400 ==
  pc = "done" =>
    /\ (bodyKind # "string" \/ query = "")
         => (response.status = 400 /\ "error" \in DOMAIN response.body)
    /\ response.status = 500 => (bodyKind = "string" /\ query # "")

\* C13: a provider adapter whose credential is missing returns an empty
\* partial record: no record at all, or a record none of whose fields is
\* set.
C13_FailedAdapterIsEmpty ==
  ListPath =>
    \A i \in 1..Len(lines), a \in Adapters :
      (api[i][a] # Pending /\ Credential[a] \notin keys)
        => \/ api[i][a] = Null
           \/ \A f \in FieldSet : OrEmpty(api[i][a], f) = ""

\* C14: the merge of a company happens only after all four of its adapter
\* calls have settled, whatever each of them returned, and the response is
\* given only after every adapter call of every company has settled and
\* every company has its record.
C14_MergeAfterAllSettle ==
  ListPath =>
    /\ \A i \in 1..Len(lines) :
         (i \in resolved \/ results[i] # Pending)
           => \A a \in Adapters : api[i][a] # Pending
    /\ pc = "done" =>
         \A i \in 1..Len(lines) :
           /\ results[i] # Pending
           /\ \A a \in Adapters : api[i][a] # Pending

\* C14 witness: a two-name list has been answered although the completion
\* call of the first name threw: the other calls of that name and the calls
\* of the second name went on and returned their results.
C14_Witness ==
  /\ ListDone
  /\ Len(lines) = 2
  /\ api[1]["OpenAI"].domain = "API Error"
  /\ api[1]["Apollo"] # Null /\ api[1]["Deepseek"] # Null
  /\ api[2]["OpenAI"].domain = "acme.co"
  /\ api[2]["Apollo"] # Null
  /\ results[1].domain = "API Error" /\ results[2].domain = "acme.co"

\* C15: a query that is not list-detected and is classified as general, or
\* as company with no name extracted, is answered with a GeneralResponse
\* whose text is not empty and whose source is 'system', also when the
\* completion provider is unavailable or fails.
C15_GeneralResponse ==
  ( /\ pc = "done" /\ ~ListPath
    /\ "intent-classifier" \in calls
    /\ \/ OrEmpty(intent, "searchIntent") = "general"
       \/ OrEmpty(intent, "searchIntent") = "company" /\ Len(lines) = 0 )
  => /\ IsGeneralResponse(response)
     /\ response.body.text # ""
     /\ response.body.source = "system"

\* C15 witness: "What are the latest AI trends?" is classified as general
\* and answered with a GeneralResponse although the completion call failed.
C15_Witness ==
  /\ pc = "done"
  /\ query = "What are the latest AI trends?"
  /\ "OPENAI" \in keys
  /\ OrEmpty(intent, "searchIntent") = "general"
  /\ IsGeneralResponse(response)
  /\ response.body.text = "An error occurred while processing your query."

\* a decimal between 0 and 1
InUnitInterval(score) == score \in {"0", "1"} \/ startsWith(score, "0.")

\* C16: whatever the classifier LLM outputs, the classification returned
\* has searchIntent in {company, person, general} and confidenceScore in
\* [0,1], and the request does not end with status 500.
C16_ClassifiedQueryValid ==
  "intent-classifier" \in calls =>
    /\ intent # Null
    /\ OrEmpty(intent, "searchIntent") \in {"company", "person", "general"}
    /\ InUnitInterval(OrEmpty(intent, "confidenceScore"))
    /\ pc = "done" => response.status # 500

\* C17: extractCompanyNames always returns a non-empty list, determined by
\* the first stage that yields one, in the order: primary LLM, brace block,
\* newline-delimited lines, comma-delimited tokens, second LLM, and the raw
\* query as a single name.
C17_FallbackChain ==
  pc = "returned" =>
    LET primary == extractCompanyNamesFromPerplexity(keys, env.intent, env.extract)
        usable == /\ "DEEPSEEK" \in keys /\ env.second.kind = "ok"
                  /\ trim(env.second.content) # ""
    IN /\ Len(lines) > 0
       /\ IF Len(primary) > 0 THEN lines = primary
          ELSE IF Len(braceStage(query)) > 0 THEN lines = braceStage(query)
          ELSE IF Len(newlineStage(query)) > 0 THEN lines = newlineStage(query)
          ELSE IF Len(commaStage(query)) > 0 THEN lines = commaStage(query)
          ELSE IF usable
            THEN lines = filterNonEmpty(mapTrim(splitLines(trim(env.second.content))))
          ELSE lines = <<query>>

\* C17 witness: the primary LLM gave nothing, the query has neither a brace
\* block nor a line break, and its comma-delimited tokens are the result.
C17_Witness ==
  /\ pc = "returned"
  /\ Len(extractCompanyNamesFromPerplexity(keys, env.intent, env.extract)) = 0
  /\ braceStage(query) = <<>> /\ newlineStage(query) = <<>>
  /\ Len(commaStage(query)) = 2
  /\ lines = commaStage(query)

\* C18: no list returned by extractCompanyNames from a stage other than the
\* raw query has an entry made only of digits, white space and bullet
\* characters, or an entry that begins with 'note:' in any letter case.
C18_NoArtifactEntries ==
  (pc = "returned" /\ lines # <<query>>) =>
    \A i \in 1..Len(lines) :
      /\ ~isBulletOnly(lines[i])
      /\ ~startsWith(toLowerCase(lines[i]), "note:")

\* C19: every record returned by getCompanyDetails has companyName, domain,
\* geography, revenue, employees and linkedinUrl present.
C19_AllFieldsPresent ==
  ListPath =>
    \A i \in 1..Len(lines) :
      api[i]["OpenAI"] \notin {Pending, Null}
        => ({"companyName"} \cup FieldSet) \subseteq DOMAIN api[i]["OpenAI"]

\* C20: every partial record returned by getApolloData and getDeepseekData
\* holds only fields whose value is a non-empty string other than 'Not
\* available'.
C20_SparsePartials ==
  ListPath =>
    \A i \in 1..Len(lines), a \in {"Apollo", "Deepseek"} :
      api[i][a] \notin {Pending, Null}
        => \A k \in DOMAIN api[i][a] : api[i][a][k] \notin {"", "Not available"}

\* a call of fn has returned
Returned(fn) == pc = "returned" /\ env.fn = fn

ContactsReturned == pc = "returned" /\ env.fn \in {"findContactPersons", "findApolloContacts"}

\* C21: every contact returned by findApolloContacts and findContactPersons
\* for a target domain has an email whose domain part equals the target
\* domain exactly (letter case ignored), a name of at least two
\* space-separated tokens and a title of length at least 3.
C21_ContactsValid ==
  ContactsReturned =>
    \A i \in 1..Len(response.returned) :
      LET contact == response.returned[i]
      IN /\ emailDomainOf(contact.email) = toLowerCase(env.domain)
         /\ Len(filterNonEmpty(split(contact.name, " "))) >= 2
         /\ Len(contact.title) >= 3

\* the title-seniority score as the contract tabulates it
seniorityScore(title) ==
  LET t == toLowerCase(title)
  IN IF includes(t, "ceo") \/ includes(t, "chief executive") THEN 100
     ELSE IF includes(t, "cto") \/ includes(t, "cfo") \/ includes(t, "coo") THEN 90
     ELSE IF includes(t, "vice president") \/ includes(t, "vp") THEN 70
     ELSE IF includes(t, "president") THEN 80
     ELSE IF includes(t, "head") THEN 60
     ELSE IF includes(t, "director") THEN 50
     ELSE 0

\* C22: the contact list returned for a company has at most 5 entries (3 on
\* the Apollo path) and is ordered by descending title-seniority score (CEO /
\* Chief Executive 100, CTO/CFO/COO 90, President 80, VP / Vice President 70,
\* Head 60, Director 50, otherwise 0), contacts of equal score keeping their
\* input order.
C22_ContactsOrdered ==
  ContactsReturned =>
    LET returned == response.returned
    IN /\ Len(returned) <= (IF env.fn = "findApolloContacts" THEN 3 ELSE 5)
       /\ \A i, j \in 1..Len(returned) :
            i < j => seniorityScore(returned[i].title)
                       >= seniorityScore(returned[j].title)
       /\ (env.fn = "findApolloContacts" /\ "APOLLO" \in keys
           /\ env.domain # "" /\ env.search.kind = "ok")
            => LET contacts == apolloContacts(keys, env.domain, env.search)
               IN returned =
                    sliceTo(sortDescending(contacts,
                              [i \in 1..Len(contacts) |->
                                 seniorityScore(contacts[i].title)]), 3)

CanonicalAcme == "https://www.linkedin.com/company/acme"

\* C23: verifyLinkedInUrl maps "linkedin.com/company/acme/",
\* "https://www.linkedin.com/company/acme" and "LINKEDIN.COM/COMPANY/ACME" to
\* the same canonical URL https://www.linkedin.com/company/acme under the same
\* outcome of the HEAD request (null for all three when the request answers
\* with a status other than 200), and returns null for "linkedin.com/in/jdoe"
\* under every outcome.
C23_LinkedInCanonical ==
  Returned("verifyLinkedInUrl") =>
    /\ env.url \in {"linkedin.com/company/acme/",
                    "https://www.linkedin.com/company/acme",
                    "LINKEDIN.COM/COMPANY/ACME"}
         => response.returned =
              (IF env.probe = "notok" THEN {} ELSE {CanonicalAcme})
    /\ env.url = "linkedin.com/in/jdoe" => response.returned = {}

\* the reasons verifyEmail names for a rejection
BadFormat == ~emailRegexTest(env.email)
DomainMismatch == emailDomainOf(env.email) # toLowerCase(env.domain)
BlockedPattern == \E p \in invalidPatterns : includes(toLowerCase(env.email), p)

\* C24 as the specification states it: "ceo@acme.com" against "acme.com" is
\* accepted, and an address is rejected only for a format, domain-match or
\* generic-role reason.
C24_AsStated ==
  Returned("verifyEmail") =>
    /\ (env.email = "ceo@acme.com" /\ env.domain = "acme.com")
         => response.returned = TRUE
    /\ (env.email \in {"ceo@sub.acme.com", "info@acme.com"}
        /\ env.domain = "acme.com") => response.returned = FALSE
    /\ response.returned = FALSE
         => (BadFormat \/ DomainMismatch \/ BlockedPattern)

\* C24: verifyEmail accepts "ceo@acme.com" against "acme.com" exactly when
\* the HEAD request to https://acme.com answers ok; it rejects
\* "ceo@sub.acme.com" and "info@acme.com" against "acme.com" under every
\* outcome; and it rejects an address only for a format, domain-match or
\* blocked-pattern reason or because that HEAD request failed.
C24_VerifyEmail ==
  Returned("verifyEmail") =>
    /\ (env.email = "ceo@acme.com" /\ env.domain = "acme.com")
         => (response.returned = TRUE <=> env.probe = "ok")
    /\ (env.email \in {"ceo@sub.acme.com", "info@acme.com"}
        /\ env.domain = "acme.com") => response.returned = FALSE
    /\ response.returned = FALSE
         => (BadFormat \/ DomainMismatch \/ BlockedPattern \/ env.probe # "ok")

C24_Witness ==
  /\ Returned("verifyEmail")
  /\ env.email = "ceo@acme.com" /\ env.domain = "acme.com"
  /\ env.probe = "notok"
  /\ response.returned = FALSE

\* "$<amount><unit>": a dollar sign, digits, optionally a point and digits,
\* and one of K, M, B, T
IsCanonicalRevenue(s) ==
  /\ Len(s) >= 3
  /\ CharAt(s, 1) = "$"
  /\ CharAt(s, Len(s)) \in {"K", "M", "B", "T"}
  /\ LET d1 == digitsEnd(s, 2)
         d2 == IF d1 < Len(s) /\ CharAt(s, d1) = "." THEN digitsEnd(s, d1 + 1)
               ELSE d1
     IN d1 > 2 /\ d2 = Len(s)

\* C28: formatRevenue returns "$<amount><unit>" with unit in {K, M, B, T} for
\* every revenue string that contains an amount followed by a unit, and is
\* the identity on strings already in that form: formatRevenue("$1.2B") is
\* "$1.2B".
C28_FormatRevenueCanonical ==
  (Returned("formatRevenue") /\ env.kind = "string") =>
    /\ revenueMatches(env.revenue)
         => \E r \in response.returned : IsCanonicalRevenue(r)
    /\ IsCanonicalRevenue(env.revenue) => response.returned = {env.revenue}

\* the organization the contract selects from a non-empty list of search
\* results for a known domain: the first whose domain, with scheme and
\* leading 'www.' stripped and letter case ignored, equals the known domain,
\* else the first result
selectedOrganization(organizations, domain) ==
  LET matching == {i \in 1..Len(organizations) :
                     /\ domain # ""
                     /\ "domain" \in DOMAIN organizations[i]
                     /\ stripSchemeAndWww(toLowerCase(organizations[i].domain))
                          = toLowerCase(domain)}
  IN IF matching = {} THEN organizations[1]
     ELSE organizations[CHOOSE i \in matching : \A j \in matching : i <= j]

\* C27: both enrichment adapters, when a domain is known, send the
\* enrich-by-domain request first and send the search-by-name request only if
\* enrichment yielded no organization; from the search results they select
\* the organization whose domain, with scheme and leading 'www.' stripped and
\* letter case ignored, equals the known domain, and take the first result
\* only if no domain was supplied or no organization matches.
C27_EnrichThenSearch ==
  /\ (Returned("getApolloData") /\ "APOLLO" \in keys) =>
       LET requests == response.requests
           searched == \E i \in 1..Len(requests) :
                         requests[i] = "organizations/search"
           enriched == env.enrich.kind = "ok"
                       /\ "organization" \in DOMAIN env.enrich
       IN /\ env.domain # "" => requests[1] = "organizations/enrich"
          /\ (env.domain # "" /\ searched) => ~enriched
          /\ (searched /\ env.search.kind = "ok"
              /\ Len(env.search.organizations) > 0)
               => LET org == selectedOrganization(env.search.organizations,
                                                  env.domain)
                  IN response.returned =
                       enrichedResult(env.domain, OrEmpty(org, "location"), org)
  /\ (Returned("getDeepseekData") /\ "DEEPSEEK" \in keys /\ env.domain # "") =>
       response.requests[1] = "companies/enrich"

\* a request to a provider has been sent and has not settled
ProviderCallOutstanding ==
  \/ /\ pc = "fanout"
     /\ \E i \in 1..Len(lines), a \in Adapters :
          api[i][a] = Pending /\ ~immediate(a)
  \/ pc \in {"classify", "natural"} /\ "OPENAI" \in keys
  \/ pc = "extract" /\ "PERPLEXITY" \in keys
  \/ pc = "details" /\ "OPENAI" \in keys /\ resolved # 1..Len(lines)

\* C25: if every outstanding provider call of a request eventually settles,
\* the request eventually returns its response; a request never returns only
\* if from some point on a provider call stays outstanding for ever.
C25_ReturnsUnlessCallHangs ==
  <>(pc = "done") \/ <>[]ProviderCallOutstanding

C25_Witness ==
  /\ ListDone /\ Len(lines) > 1
  /\ response.status = 200
  /\ \E a \in Adapters : ~immediate(a) /\ \A i \in 1..Len(lines) : api[i][a] # Pending

\* the request most recently sent has settled and no other is in flight
LatestSettled(r) == r \in page.latest /\ page.inflight = {}

\* C26: when the search endpoint answers with a non-2xx status and a body
\* {error, details}, the error banner shows that error text and, when
\* present, those details; and a CompanyResponse in which some records are
\* 'not_found' is rendered in full, every record on one of the pages.
C26_BannerShowsServerError ==
  \A r \in page.latest :
    (LatestSettled(r) /\ r.id = 1 /\ r.answer.kind = "response") =>
      IF ~r.answer.ok
      THEN banner(page) = {[error |-> r.answer.body.error,
                            details |-> OrEmpty(r.answer.body, "details")]}
      ELSE r.answer.body.type = "companies" => page.results = r.answer.body.results

\* C29: after any sequence of searches and Previous/Next clicks currentPage
\* stays within 1..max(1, totalPages) for the result list held, so whenever
\* the result list is non-empty the displayed page has at least one row.
C29_CurrentPageInRange ==
  /\ page.currentPage >= 1
  /\ page.currentPage <= (IF totalPages(page) > 1 THEN totalPages(page) ELSE 1)
  /\ Len(page.results) > 0 => Len(paginatedResults(page)) >= 1

\* what the page displays once the answer of request r is in
Displays(r) ==
  IF r.answer.kind = "reject" THEN page.error = {[error |-> "Failed to fetch"]}
  ELSE IF ~r.answer.ok THEN page.error # {}
  ELSE IF r.answer.body.type = "general"
  THEN page.generalResponse = {r.answer.body.text}
  ELSE page.results = r.answer.body.results

\* C30: at most one search request is in flight at any time, so once all
\* requests have settled the results, general answer or error displayed are
\* those of the most recently submitted query, and isLoading is false only
\* when no request is outstanding.
C30_OneRequestInFlight ==
  /\ Cardinality(page.inflight) <= 1
  /\ ~page.isLoading => page.inflight = {}
  /\ \A r \in page.latest : LatestSettled(r) => Displays(r)

====
